---- MODULE Spec2Model ----
(***************************************************************************)
(* State-machine model of src/src/lib.rs: MmapRegion (a file-backed        *)
(* mapping with its set of populated pages) and VmaManager (the ordered    *)
(* list of regions).  Addresses, sizes and offsets are scaled down to a    *)
(* small universe; usize and isize keep a (scaled) width so that the       *)
(* subtractions of get_buf can underflow as they do in the code.           *)
(***************************************************************************)
EXTENDS Integers, Sequences, FiniteSets, TLC

\* ---------------------------------------------------------------- bounds
\* Virtual addresses are 0..MaxAddr.
MaxAddr == 3
\* add_region is offered only while fewer than MaxRegions regions are held.
MaxRegions == 2
\* remove_overlapped is followed only while it leaves at most MaxHeld regions.
MaxHeld == 3
\* The page size (PageSize::Size4K scaled down), in address units.
PageUnit == 2
\* The file capability reports lengths 0..MaxFileLen.
MaxFileLen == 3
\* usize and isize are UsizeBits wide.
UsizeBits == 6
\* Threads faulting on one region at the same time.
MaxLoaders == 2

Addrs == 0 .. MaxAddr
PageSizes == {PageUnit}
Files == {"file"}
Offsets == {-1, 0, 1}
ManagerOffsets == {0, 1}
UsizeMod == 2 ^ UsizeBits
IsizeMax == 2 ^ (UsizeBits - 1) - 1
IsizeMin == -(2 ^ (UsizeBits - 1))

\* ------------------------------------------------------- Option<T>, errors
None == <<>>
Some(x) == <<x>>
IsSome(o) == o # <<>>
Unwrap(o) == o[1]

EFAULT == "EFAULT"
EINVAL == "EINVAL"
EIO == "EIO"
EBUSY == "EBUSY"

\* ------------------------------------------------ machine integers (scaled)
\* usize subtraction a - b: wraps when overflow checks are off.
WrapUsize(x) == x % UsizeMod
\* `x as isize` of a usize value: two's complement reinterpretation.
AsIsize(x) == IF x > IsizeMax THEN x - UsizeMod ELSE x
\* isize addition, wrapping.
WrapIsize(x) == ((x - IsizeMin) % UsizeMod) + IsizeMin

\* ------------------------------------------------- VirtAddrRange (half-open)
\* VirtAddrRange::new asserts start <= end.
Ranges == {r \in [start : Addrs, end : Addrs] : r.start <= r.end}

FromStartSize(start, size) == [start |-> start, end |-> start + size]

RangeContains(r, a) == r.start <= a /\ a < r.end

RangeOverlaps(r, o) == r.start < o.end /\ o.start < r.end

AlignDown(a, align) == a - (a % align)

Max2(a, b) == IF a >= b THEN a ELSE b
Min2(a, b) == IF a <= b THEN a ELSE b

\* ------------------------------------------------------------- MmapRegion
NewRegion(range, file, offset, align) ==
    [range |-> range, file |-> file, offset |-> offset,
     populated |-> {}, align |-> align]

Contains(self, vaddr) == RangeContains(self.range, vaddr)

Overlaps(self, range) == RangeOverlaps(self.range, range)

\* create_segment without the filter on the segment's interval.
CreateSegmentUnfiltered(self, populated_pages, segment_range) ==
    [range |-> segment_range,
     file |-> self.file,
     offset |-> WrapIsize(self.offset
                  + AsIsize(WrapUsize(segment_range.start - self.range.start))),
     populated |-> populated_pages,
     align |-> self.align]

\* create_segment copying the parent's offset.
CreateSegmentSameOffset(self, populated_pages, segment_range) ==
    [range |-> segment_range,
     file |-> self.file,
     offset |-> self.offset,
     populated |-> {page \in populated_pages :
                      segment_range.start <= page /\ page < segment_range.end},
     align |-> self.align]

\* create_segment filtering the region's set as it is when the segment is
\* built, not the snapshot.
CreateSegmentLive(self, populated_pages, segment_range) ==
    [range |-> segment_range,
     file |-> self.file,
     offset |-> WrapIsize(self.offset
                  + AsIsize(WrapUsize(segment_range.start - self.range.start))),
     populated |-> {page \in self.populated :
                      segment_range.start <= page /\ page < segment_range.end},
     align |-> self.align]

\* The closure create_segment; populated_pages is the snapshot of line 76.
CreateSegment(self, populated_pages, segment_range) ==
    [range |-> segment_range,
     file |-> self.file,
     offset |-> WrapIsize(self.offset
                  + AsIsize(WrapUsize(segment_range.start - self.range.start))),
     populated |-> {page \in populated_pages : RangeContains(segment_range, page)},
     align |-> self.align]

\* The before segment reaching to the target's end instead of its start.
SplitBeforeToEnd(self, populated_pages, range) ==
    IF self.range.start < range.start
    THEN Some([range |-> [start |-> self.range.start,
                          end |-> Min2(range.end, self.range.end)],
               file |-> self.file,
               offset |-> self.offset,
               populated |-> {page \in populated_pages :
                                self.range.start <= page
                                /\ page < Min2(range.end, self.range.end)},
               align |-> self.align])
    ELSE None

SplitBefore(self, populated_pages, range) ==
    IF self.range.start < range.start
    THEN Some(CreateSegment(self, populated_pages,
              FromStartSize(self.range.start, range.start - self.range.start)))
    ELSE None

\* The after segment starting at the target's start instead of its end.
SplitAfterFromStart(self, populated_pages, range) ==
    IF range.end < self.range.end
    THEN Some([range |-> [start |-> range.start, end |-> self.range.end],
               file |-> self.file,
               offset |-> self.offset + (range.start - self.range.start),
               populated |-> {page \in populated_pages :
                                range.start <= page /\ page < self.range.end},
               align |-> self.align])
    ELSE None

\* The after segment produced also when the target ends where the region ends.
SplitAfterInclusive(self, populated_pages, range) ==
    IF range.end <= self.range.end
    THEN Some([range |-> [start |-> range.end, end |-> self.range.end],
               file |-> self.file,
               offset |-> self.offset + (range.end - self.range.start),
               populated |-> {page \in populated_pages :
                                range.end <= page /\ page < self.range.end},
               align |-> self.align])
    ELSE None

SplitAfter(self, populated_pages, range) ==
    IF range.end < self.range.end
    THEN Some(CreateSegment(self, populated_pages,
              FromStartSize(range.end, self.range.end - range.end)))
    ELSE None

SplitOverlap(self, populated_pages, range) ==
    LET overlap_start == Max2(self.range.start, range.start)
        overlap_end == Min2(self.range.end, range.end)
    IN  IF overlap_start < overlap_end
        THEN Some(CreateSegment(self, populated_pages,
                  FromStartSize(overlap_start, overlap_end - overlap_start)))
        ELSE None

\* split_at_range: <<before, overlap, after>>.
SplitAtRange(self, range) ==
    IF ~Overlaps(self, range)
    THEN <<None, None, None>>
    ELSE LET populated_pages == self.populated
         IN  <<SplitBefore(self, populated_pages, range),
               SplitOverlap(self, populated_pages, range),
               SplitAfter(self, populated_pages, range)>>

\* self.populated.lock().insert(page_addr) replacing the set it finds.
InsertPageOverwrite(populated, page_addr) == {page_addr}

\* Line 141: self.populated.lock().insert(page_addr).
InsertPage(populated, page_addr) == populated \cup {page_addr}

\* Results of the file capability (VmFile::len, VmFile::read_at).
Ok(v) == [ok |-> TRUE, val |-> v]
Err(e) == [ok |-> FALSE, err |-> e]
LenResults == {Ok(n) : n \in 0 .. MaxFileLen} \cup {Err(EIO)}
\* read_at may read fewer bytes than the buffer holds.
ReadResults == {Ok(n) : n \in 0 .. PageUnit} \cup {Err(EIO)}

\* vec![0u8; size] after read_at wrote filled bytes of file data (a file byte
\* is 1, a byte never written is 0).
Buffer(size, filled) == [k \in 1 .. size |-> IF k <= filled THEN 1 ELSE 0]

\* What get_buf returns, and the populated set it leaves.
BufOk(size, filled) ==
    [kind |-> "Ok", len |-> size, filled |-> filled, buf |-> Buffer(size, filled)]
BufErr(e) == [kind |-> "Err", errno |-> e]
Panic == [kind |-> "Panic"]

AlreadyPopulatedError == EFAULT

\* The outcome of get_buf: the value returned, the populated set left, and
\* whether the file capability's len and read_at were called.
Outcome(r, populated, len_called, read_called) ==
    [ret |-> r, populated |-> populated,
     len_called |-> len_called, read_called |-> read_called]

\* min(self.align as usize, self.range.end - page_addr), wrapping.
BufSize(self, page_addr) ==
    Min2(self.align, WrapUsize(self.range.end - page_addr))

\* get_buf inserting the page before the read.
GetBufLoadInsertFirst(self, page_addr, checks, read_res) ==
    IF page_addr > self.range.end /\ checks
    THEN Outcome(Panic, self.populated, TRUE, FALSE)
    ELSE IF ~read_res.ok
    THEN Outcome(BufErr(read_res.err), self.populated \cup {page_addr}, TRUE, TRUE)
    ELSE Outcome(BufOk(BufSize(self, page_addr),
                       Min2(read_res.val, BufSize(self, page_addr))),
                 self.populated \cup {page_addr}, TRUE, TRUE)

\* get_buf truncating the buffer to the bytes read.
GetBufLoadTruncating(self, page_addr, checks, read_res) ==
    IF page_addr > self.range.end /\ checks
    THEN Outcome(Panic, self.populated, TRUE, FALSE)
    ELSE IF ~read_res.ok
    THEN Outcome(BufErr(read_res.err), self.populated, TRUE, TRUE)
    ELSE Outcome(BufOk(Min2(read_res.val, BufSize(self, page_addr)),
                       Min2(read_res.val, BufSize(self, page_addr))),
                 self.populated \cup {page_addr}, TRUE, TRUE)

\* Lines 138-143: the buffer, the read and the insertion.
GetBufLoad(self, page_addr, checks, read_res) ==
    IF page_addr > self.range.end /\ checks
    THEN Outcome(Panic, self.populated, TRUE, FALSE)
    ELSE LET buf_size == BufSize(self, page_addr)
         IN  IF ~read_res.ok
             THEN Outcome(BufErr(read_res.err), self.populated, TRUE, TRUE)
             ELSE Outcome(BufOk(buf_size, Min2(read_res.val, buf_size)),
                          self.populated \cup {page_addr}, TRUE, TRUE)

\* The bounds test of line 134 accepting an offset equal to the file length.
GetBufOffsetOffByOne(self, page_addr, checks, len_res, read_res) ==
    IF page_addr < self.range.start /\ checks
    THEN Outcome(Panic, self.populated, FALSE, FALSE)
    ELSE LET file_offset ==
                 WrapIsize(self.offset + AsIsize(WrapUsize(page_addr - self.range.start)))
         IN  IF file_offset < 0
             THEN Outcome(BufErr(EINVAL), self.populated, FALSE, FALSE)
             ELSE IF ~len_res.ok
             THEN Outcome(BufErr(len_res.err), self.populated, TRUE, FALSE)
             ELSE IF file_offset > len_res.val
             THEN Outcome(BufErr(EINVAL), self.populated, TRUE, FALSE)
             ELSE GetBufLoad(self, page_addr, checks, read_res)

\* Lines 132-136: the file offset of the page and its validation.
GetBufOffset(self, page_addr, checks, len_res, read_res) ==
    IF page_addr < self.range.start /\ checks
    THEN Outcome(Panic, self.populated, FALSE, FALSE)
    ELSE LET page_offset == WrapUsize(page_addr - self.range.start)
             sum == self.offset + AsIsize(page_offset)
             file_offset == WrapIsize(sum)
         IN  IF sum # file_offset /\ checks
             THEN Outcome(Panic, self.populated, FALSE, FALSE)
             ELSE IF file_offset < 0
             THEN Outcome(BufErr(EINVAL), self.populated, FALSE, FALSE)
             ELSE IF ~len_res.ok
             THEN Outcome(BufErr(len_res.err), self.populated, TRUE, FALSE)
             ELSE IF file_offset >= len_res.val
             THEN Outcome(BufErr(EINVAL), self.populated, TRUE, FALSE)
             ELSE GetBufLoad(self, page_addr, checks, read_res)

\* get_buf; checks is the build's overflow-checks setting, len_res and
\* read_res are what the file capability answers.
GetBuf(self, vaddr, checks, len_res, read_res) ==
    LET page_addr == AlignDown(vaddr, self.align)
    IN  IF page_addr \in self.populated
        THEN Outcome(BufErr(AlreadyPopulatedError), self.populated, FALSE, FALSE)
        ELSE GetBufOffset(self, page_addr, checks, len_res, read_res)

\* ------------------------------------------------------------- VmaManager
\* find_region: iter().find(|r| r.contains(vaddr)).
RECURSIVE FindFrom(_, _, _)
FindFrom(rs, i, vaddr) ==
    IF i > Len(rs) THEN None
    ELSE IF Contains(rs[i], vaddr) THEN Some(rs[i])
    ELSE FindFrom(rs, i + 1, vaddr)

\* find_region returning the last region containing vaddr.
FindRegionLast(rs, vaddr) ==
    LET hits == {i \in 1 .. Len(rs) : rs[i].range.start <= vaddr /\ vaddr < rs[i].range.end}
    IN  IF hits = {} THEN <<>>
        ELSE <<rs[CHOOSE i \in hits : \A j \in hits : j <= i]>>

FindRegion(rs, vaddr) == FindFrom(rs, 1, vaddr)

OptSeq(o) == o

\* The loop body without its else: the drained region is retained as well.
RemoveStepKeepAll(acc, region, vaddr_range) ==
    LET parts == SplitAtRange(region, vaddr_range)
    IN  [removed |-> acc.removed \o parts[2],
         retained |-> Append(acc.retained \o parts[1] \o parts[3], region)]

\* The loop body with the two pushes exchanged: the overlap retained, the
\* rest returned.
RemoveStepSwapped(acc, region, vaddr_range) ==
    IF Overlaps(region, vaddr_range)
    THEN LET parts == SplitAtRange(region, vaddr_range)
         IN  [removed |-> acc.removed \o parts[1] \o parts[3],
              retained |-> acc.retained \o parts[2]]
    ELSE [removed |-> acc.removed, retained |-> Append(acc.retained, region)]

\* The body of the loop of remove_overlapped for one drained region.
RemoveStep(acc, region, vaddr_range) ==
    IF Overlaps(region, vaddr_range)
    THEN LET parts == SplitAtRange(region, vaddr_range)
         IN  [removed |-> acc.removed \o OptSeq(parts[2]),
              retained |-> acc.retained \o OptSeq(parts[1]) \o OptSeq(parts[3])]
    ELSE [removed |-> acc.removed, retained |-> Append(acc.retained, region)]

RECURSIVE RemoveLoop(_, _, _)
RemoveLoop(rs, vaddr_range, acc) ==
    IF rs = <<>> THEN acc
    ELSE RemoveLoop(Tail(rs), vaddr_range, RemoveStep(acc, Head(rs), vaddr_range))

\* remove_overlapped: [removed |-> the returned list, retained |-> self.regions].
RemoveOverlapped(rs, vaddr_range) ==
    RemoveLoop(rs, vaddr_range, [removed |-> <<>>, retained |-> <<>>])

\* ------------------------------------------------------------------ state
VARIABLES
    regions,          \* VmaManager::regions
    overflow_checks,  \* whether the build panics on integer overflow
    old_regions,      \* history: regions before the last call
    call,             \* history: the last call, its arguments and, for get_buf,
                      \* whether it called the file's len and read_at
    ret,              \* history: what the last call returned
    disjoint_adds,    \* history: every add_region so far added a region sharing
                      \* no address with the regions held
    threads           \* the calls in flight on the first region, one per thread

vars == <<regions, overflow_checks, old_regions, call, ret, disjoint_adds, threads>>

SharesAddress(r, o) == \E a \in Addrs : RangeContains(r, a) /\ RangeContains(o, a)

Init ==
    /\ regions = <<>>
    /\ overflow_checks \in BOOLEAN
    /\ old_regions = <<>>
    /\ call = [op |-> "new"]
    /\ ret = [kind |-> "Unit"]
    /\ disjoint_adds = TRUE
    /\ threads = <<>>

\* A panic ends the program.
Running == ret.kind # "Panic"

Clear ==
    /\ Running
    /\ regions' = <<>>
    /\ old_regions' = regions
    /\ call' = [op |-> "clear"]
    /\ ret' = [kind |-> "Unit"]
    /\ UNCHANGED <<overflow_checks, disjoint_adds, threads>>

AddRegion ==
    /\ Running
    /\ Len(regions) < MaxRegions
    /\ \E range \in Ranges, file \in Files, offset \in ManagerOffsets, align \in PageSizes :
          LET region == NewRegion(range, file, offset, align)
          IN  /\ regions' = Append(regions, region)
              /\ call' = [op |-> "add_region", region |-> region]
              /\ disjoint_adds' = (disjoint_adds /\
                    \A i \in 1 .. Len(regions) : ~SharesAddress(regions[i].range, range))
    /\ old_regions' = regions
    /\ ret' = [kind |-> "Unit"]
    /\ UNCHANGED <<overflow_checks, threads>>

CallFindRegion ==
    /\ Running
    /\ \E vaddr \in Addrs :
          /\ call' = [op |-> "find_region", vaddr |-> vaddr]
          /\ ret' = [kind |-> "Found", region |-> FindRegion(regions, vaddr)]
    /\ old_regions' = regions
    /\ UNCHANGED <<regions, overflow_checks, disjoint_adds, threads>>

\* remove_overlapped(vaddr_range) on the manager.
RemoveOverlappedAt(vaddr_range) ==
    LET out == RemoveOverlapped(regions, vaddr_range)
    IN  /\ Len(out.retained) <= MaxHeld
        /\ regions' = out.retained
        /\ call' = [op |-> "remove_overlapped", range |-> vaddr_range]
        /\ ret' = [kind |-> "Removed", removed |-> out.removed]
        /\ old_regions' = regions
        /\ UNCHANGED <<overflow_checks, disjoint_adds, threads>>

CallRemoveOverlapped ==
    /\ Running
    /\ \E vaddr_range \in Ranges : RemoveOverlappedAt(vaddr_range)

\* The methods of a held region, reached through the manager.
CallOverlaps ==
    /\ Running
    /\ \E i \in 1 .. Len(regions), range \in Ranges :
          /\ call' = [op |-> "overlaps", index |-> i, range |-> range]
          /\ ret' = [kind |-> "Bool", val |-> Overlaps(regions[i], range)]
    /\ old_regions' = regions
    /\ UNCHANGED <<regions, overflow_checks, disjoint_adds, threads>>

CallSplitAtRange ==
    /\ Running
    /\ \E i \in 1 .. Len(regions), range \in Ranges :
          /\ call' = [op |-> "split_at_range", index |-> i, range |-> range]
          /\ ret' = [kind |-> "Split", parts |-> SplitAtRange(regions[i], range)]
    /\ old_regions' = regions
    /\ UNCHANGED <<regions, overflow_checks, disjoint_adds, threads>>

\* get_buf on the held region at index i.
GetBufAt(i, vaddr, len_res, read_res) ==
    LET out == GetBuf(regions[i], vaddr, overflow_checks, len_res, read_res)
    IN  /\ regions' = [regions EXCEPT ![i].populated = out.populated]
        /\ call' = [op |-> "get_buf", index |-> i, vaddr |-> vaddr,
                    len_res |-> len_res, read_res |-> read_res,
                    len_called |-> out.len_called, read_called |-> out.read_called]
        /\ ret' = out.ret
        /\ old_regions' = regions
        /\ UNCHANGED <<overflow_checks, disjoint_adds, threads>>

CallGetBuf ==
    /\ Running
    /\ \E i \in 1 .. Len(regions), vaddr \in Addrs,
           len_res \in LenResults, read_res \in ReadResults :
          GetBufAt(i, vaddr, len_res, read_res)

\* The index of the region find_region returns.
FirstContaining(rs, vaddr) ==
    {i \in 1 .. Len(rs) : /\ Contains(rs[i], vaddr)
                          /\ \A j \in 1 .. i - 1 : ~Contains(rs[j], vaddr)}

\* A page fault: find_region(vaddr), then get_buf(vaddr) on the region found,
\* served from a file of MaxFileLen bytes whose reads succeed.
LoadPage ==
    /\ Running
    /\ \E vaddr \in Addrs : \E i \in FirstContaining(regions, vaddr) :
          GetBufAt(i, vaddr, Ok(MaxFileLen), Ok(PageUnit))

\* The manager: structural edits, lookups and page loads.
Next ==
    \/ Clear
    \/ AddRegion
    \/ CallFindRegion
    \/ CallRemoveOverlapped
    \/ LoadPage

Spec == Init /\ [][Next]_vars

\* One region, as add_region on a new manager leaves it, and its methods.
InitRegion ==
    /\ \E range \in Ranges, file \in Files, offset \in Offsets, align \in PageSizes :
          /\ regions = <<NewRegion(range, file, offset, align)>>
          /\ call = [op |-> "add_region",
                     region |-> NewRegion(range, file, offset, align)]
    /\ overflow_checks \in BOOLEAN
    /\ old_regions = <<>>
    /\ ret = [kind |-> "Unit"]
    /\ disjoint_adds = TRUE
    /\ threads = <<>>

NextRegion ==
    \/ CallOverlaps
    \/ CallSplitAtRange
    \/ CallGetBuf

SpecRegion == InitRegion /\ [][NextRegion]_vars

\* add_region of a region whose start is a multiple of its page size.
AddAlignedRegion ==
    /\ AddRegion
    /\ call'.region.range.start % call'.region.align = 0

\* The manager holding only regions created with aligned starts.
NextAligned ==
    \/ Clear
    \/ AddAlignedRegion
    \/ CallRemoveOverlapped
    \/ CallSplitAtRange
    \/ LoadPage

SpecAligned == Init /\ [][NextAligned]_vars

\* The end-to-end scenario: one region of three pages starting at the second
\* page, over a file of three pages; addresses run over the first four pages.
ScenarioAddrs == 0 .. 4 * PageUnit
ScenarioRanges == {r \in [start : ScenarioAddrs, end : ScenarioAddrs] : r.start <= r.end}
ScenarioRegion ==
    NewRegion([start |-> PageUnit, end |-> 4 * PageUnit], "file", 0, PageUnit)

InitScenario ==
    /\ regions = <<ScenarioRegion>>
    /\ call = [op |-> "add_region", region |-> ScenarioRegion]
    /\ overflow_checks \in BOOLEAN
    /\ old_regions = <<>>
    /\ ret = [kind |-> "Unit"]
    /\ disjoint_adds = TRUE
    /\ threads = <<>>

\* The scenario's call: remove_overlapped while the region is still whole.
ScenarioRemove ==
    /\ Running
    /\ Len(regions) = 1
    /\ regions[1].range = ScenarioRegion.range
    /\ \E vaddr_range \in ScenarioRanges : RemoveOverlappedAt(vaddr_range)

ScenarioLoadPage ==
    /\ Running
    /\ \E vaddr \in ScenarioAddrs : \E i \in FirstContaining(regions, vaddr) :
          GetBufAt(i, vaddr, Ok(3 * PageUnit), Ok(PageUnit))

NextScenario ==
    \/ ScenarioRemove
    \/ ScenarioLoadPage

SpecScenario == InitScenario /\ [][NextScenario]_vars

\* ---------------------------------------------------- concurrent callers
\* Threads sharing one region (&self): MaxLoaders of them call get_buf, one
\* calls split_at_range. Every thread makes one call; a step of a call is a
\* stretch of its code that takes the lock of populated at most once.
Loaders == 1 .. MaxLoaders
Splitter == MaxLoaders + 1
Threads == Loaders \cup {Splitter}

InitConc ==
    /\ \E range \in Ranges, file \in Files, offset \in ManagerOffsets, align \in PageSizes :
          /\ range.start < range.end
          /\ regions = <<NewRegion(range, file, offset, align)>>
          /\ call = [op |-> "add_region",
                     region |-> NewRegion(range, file, offset, align)]
    /\ overflow_checks \in BOOLEAN
    /\ old_regions = <<>>
    /\ ret = [kind |-> "Unit"]
    /\ disjoint_adds = TRUE
    /\ threads = [t \in Threads |-> [pc |-> "idle"]]

Returned(t) == threads[t].pc = "done"
InFlight(t) == threads[t].pc \notin {"idle", "done"}
\* A panic in one thread ends the program.
ConcRunning == \A t \in Loaders : Returned(t) => threads[t].ret.kind # "Panic"

\* Lines 127-130: the page address and the lookup under the lock.
GetBufCheck(t) ==
    /\ ConcRunning
    /\ t \in Loaders
    /\ threads[t].pc = "idle"
    /\ \E vaddr \in Addrs :
          /\ Contains(regions[1], vaddr)
          /\ LET page_addr == AlignDown(vaddr, regions[1].align)
                 entry == [op |-> "get_buf", vaddr |-> vaddr, page_addr |-> page_addr]
             IN  threads' = [threads EXCEPT ![t] =
                    IF page_addr \in regions[1].populated
                    THEN entry @@ [pc |-> "done", ret |-> BufErr(AlreadyPopulatedError)]
                    ELSE entry @@ [pc |-> "read"]]
    /\ UNCHANGED <<regions, overflow_checks, old_regions, call, ret, disjoint_adds>>

\* Lines 132-140: the offset, its validation and the read, with no lock held.
\* The file has MaxFileLen bytes; the read fills the buffer or fails.
GetBufRead(t) ==
    /\ ConcRunning
    /\ t \in Loaders
    /\ threads[t].pc = "read"
    /\ \E read_res \in {Ok(PageUnit), Err(EIO)} :
          LET out == GetBufOffset(regions[1], threads[t].page_addr, overflow_checks,
                                  Ok(MaxFileLen), read_res)
          IN  threads' = [threads EXCEPT ![t] =
                 [pc |-> IF out.ret.kind = "Ok" THEN "insert" ELSE "done",
                  ret |-> out.ret, read_res |-> read_res] @@ @]
    /\ UNCHANGED <<regions, overflow_checks, old_regions, call, ret, disjoint_adds>>

\* Lines 141-143: the insertion under the lock, and the return.
GetBufInsert(t) ==
    /\ ConcRunning
    /\ t \in Loaders
    /\ threads[t].pc = "insert"
    /\ regions' = [regions EXCEPT ![1].populated = InsertPage(@, threads[t].page_addr)]
    /\ threads' = [threads EXCEPT ![t] =
          [pc |-> "done",
           raced |-> \E u \in Loaders \ {t} : InFlight(u)] @@ @]
    /\ UNCHANGED <<overflow_checks, old_regions, call, ret, disjoint_adds>>

\* Lines 70-76: the overlap test and the snapshot taken under the lock.
SplitSnapshot(t) ==
    /\ ConcRunning
    /\ t = Splitter
    /\ threads[t].pc = "idle"
    /\ \E range \in Ranges :
          LET entry == [op |-> "split_at_range", range |-> range]
          IN  threads' = [threads EXCEPT ![t] =
                 IF ~Overlaps(regions[1], range)
                 THEN entry @@ [pc |-> "done", parts |-> <<None, None, None>>,
                                populated_pages |-> {}]
                 ELSE entry @@ [pc |-> "segments",
                                populated_pages |-> regions[1].populated]]
    /\ UNCHANGED <<regions, overflow_checks, old_regions, call, ret, disjoint_adds>>

\* Lines 79-121: the three segments built from the snapshot, with no lock held.
SplitSegments(t) ==
    /\ ConcRunning
    /\ t = Splitter
    /\ threads[t].pc = "segments"
    /\ LET self == regions[1]
           populated_pages == threads[t].populated_pages
           range == threads[t].range
       IN  threads' = [threads EXCEPT ![t] =
              [pc |-> "done",
               parts |-> <<SplitBefore(self, populated_pages, range),
                           SplitOverlap(self, populated_pages, range),
                           SplitAfter(self, populated_pages, range)>>,
               behind |-> self.populated \ populated_pages] @@ @]
    /\ UNCHANGED <<regions, overflow_checks, old_regions, call, ret, disjoint_adds>>

NextConc ==
    \E t \in Threads :
        \/ GetBufCheck(t)
        \/ GetBufRead(t)
        \/ GetBufInsert(t)
        \/ SplitSnapshot(t)
        \/ SplitSegments(t)

SpecConc == InitConc /\ [][NextConc]_vars

\* ------------------------------------------------------------ properties
RangeAddrs(r) == {a \in Addrs : RangeContains(r, a)}
RangeInside(r, o) == o.start <= r.start /\ r.end <= o.end
Elems(sq) == {sq[k] : k \in 1 .. Len(sq)}
\* The region a method of a held region was called on.
Callee == regions[call.index]
\* The segments split_at_range returned.
Parts == {Unwrap(ret.parts[k]) : k \in {n \in 1 .. 3 : IsSome(ret.parts[n])}}

\* C1: as long as every add_region added a region sharing no address with the
\* regions held, no two held regions share an address.
C1_Disjoint ==
    disjoint_adds =>
        \A i \in 1 .. Len(regions), j \in 1 .. Len(regions) :
            i # j => ~SharesAddress(regions[i].range, regions[j].range)

C1_Witness ==
    /\ disjoint_adds
    /\ call.op = "remove_overlapped"
    /\ Len(old_regions) = 2
    /\ Len(regions) = 3
    /\ Len(ret.removed) = 1

\* C2: after remove_overlapped(r) no held region contains an address of r,
\* find_region finds nothing at any address of r, and every removed region
\* lies inside r.
C2_RangeRemoved ==
    call.op = "remove_overlapped" =>
        /\ \A a \in RangeAddrs(call.range) :
              /\ FindRegion(regions, a) = None
              /\ \A i \in 1 .. Len(regions) : ~Contains(regions[i], a)
        /\ \A k \in 1 .. Len(ret.removed) :
              RangeInside(ret.removed[k].range, call.range)

C2_Witness ==
    /\ call.op = "remove_overlapped"
    /\ Len(ret.removed) = 2
    /\ Len(regions) = 2
    /\ \E i \in 1 .. Len(old_regions) :
          ~RangeInside(old_regions[i].range, call.range)

\* C3: each segment of a split holds exactly the parent's populated pages
\* that lie in its interval; no page is in two segments, and together the
\* segments hold the parent's pages that lie in some segment.
C3_PopulationConserved ==
    call.op = "split_at_range" =>
        LET P == Callee.populated
        IN  /\ \A s \in Parts :
                  s.populated = {p \in P : s.range.start <= p /\ p < s.range.end}
            /\ \A s \in Parts, t \in Parts :
                  s # t => s.populated \cap t.populated = {}
            /\ UNION {s.populated : s \in Parts}
                 = {p \in P : \E s \in Parts : p \in RangeAddrs(s.range)}

C3_Witness ==
    /\ call.op = "split_at_range"
    /\ IsSome(ret.parts[1]) /\ IsSome(ret.parts[2]) /\ IsSome(ret.parts[3])
    /\ Unwrap(ret.parts[1]).populated # {}
    /\ Unwrap(ret.parts[3]).populated # {}
    /\ Unwrap(ret.parts[1]).populated # Callee.populated

\* C4: every region remove_overlapped keeps or returns is a piece of a region
\* held before the call, with offset = parent offset + (start - parent start),
\* so offset - range.start is carried along every sequence of calls.
C4_OffsetKept ==
    call.op = "remove_overlapped" =>
        \A q \in Elems(regions) \cup Elems(ret.removed) :
            \E parent \in Elems(old_regions) :
                /\ RangeInside(q.range, parent.range)
                /\ q.offset = parent.offset + (q.range.start - parent.range.start)
                /\ q.offset - q.range.start = parent.offset - parent.range.start

C4_Witness ==
    /\ call.op = "remove_overlapped"
    /\ Len(old_regions) = 1
    /\ Len(regions) = 2
    /\ Len(ret.removed) = 1
    /\ regions[2].offset = old_regions[1].offset + 2
    /\ ret.removed[1].offset = old_regions[1].offset + 1

\* C5: for a target range sharing an address with the region, before is
\* present iff R.start < T.start and is [R.start, T.start); after is present
\* iff R.end > T.end and is [T.end, R.end); overlap is present (the ranges
\* intersect) and is the intersection; the segments are pairwise disjoint and
\* cover R.
C5_SplitShape ==
    (call.op = "split_at_range" /\ SharesAddress(Callee.range, call.range)) =>
        LET R == Callee.range
            T == call.range
            before == ret.parts[1]
            overlap == ret.parts[2]
            after == ret.parts[3]
        IN  /\ IsSome(before) <=> R.start < T.start
            /\ IsSome(before) =>
                  Unwrap(before).range = [start |-> R.start, end |-> T.start]
            /\ IsSome(after) <=> R.end > T.end
            /\ IsSome(after) =>
                  Unwrap(after).range = [start |-> T.end, end |-> R.end]
            /\ IsSome(overlap) <=> RangeAddrs(R) \cap RangeAddrs(T) # {}
            /\ IsSome(overlap) =>
                  RangeAddrs(Unwrap(overlap).range) = RangeAddrs(R) \cap RangeAddrs(T)
            /\ \A s \in Parts, t \in Parts :
                  s # t => ~SharesAddress(s.range, t.range)
            /\ UNION {RangeAddrs(s.range) : s \in Parts} = RangeAddrs(R)

C5_Witness ==
    /\ call.op = "split_at_range"
    /\ SharesAddress(Callee.range, call.range)
    /\ IsSome(ret.parts[1]) /\ IsSome(ret.parts[2]) /\ IsSome(ret.parts[3])

\* C6: split_at_range on a range sharing no address with the region returns
\* no segment and leaves the region as it was.
C6_DisjointSplitIsNoOp ==
    (call.op = "split_at_range" /\ ~SharesAddress(Callee.range, call.range)) =>
        /\ ret.parts = <<None, None, None>>
        /\ regions = old_regions

\* C7: overlaps(r) is true iff the region's range and r share an address, and
\* it changes nothing.
C7_OverlapsIffShared ==
    call.op = "overlaps" =>
        /\ ret.val = SharesAddress(Callee.range, call.range)
        /\ regions = old_regions

\* C8: remove_overlapped(r) keeps, unchanged and in order, every held region
\* sharing no address with r, and returns none of them; if no held region
\* shares an address with r it returns nothing and the list is as before.
C8_OthersKept ==
    call.op = "remove_overlapped" =>
        LET apart == {i \in 1 .. Len(old_regions) :
                        ~SharesAddress(old_regions[i].range, call.range)}
        IN  /\ \A i \in apart :
                  /\ old_regions[i] \in Elems(regions)
                  /\ old_regions[i] \notin Elems(ret.removed)
            /\ apart = 1 .. Len(old_regions) =>
                  /\ ret.removed = <<>>
                  /\ regions = old_regions

\* C9: find_region(a) returns none iff no held region contains a, otherwise
\* the earliest held region containing a; it changes nothing.
C9_FindRegion ==
    call.op = "find_region" =>
        /\ regions = old_regions
        /\ ret.region = None <=>
              \A i \in 1 .. Len(regions) : ~RangeContains(regions[i].range, call.vaddr)
        /\ IsSome(ret.region) =>
              /\ RangeContains(Unwrap(ret.region).range, call.vaddr)
              /\ \E i \in 1 .. Len(regions) :
                    /\ regions[i] = Unwrap(ret.region)
                    /\ \A j \in 1 .. i - 1 :
                          ~RangeContains(regions[j].range, call.vaddr)

C9_Witness ==
    /\ call.op = "find_region"
    /\ Len(regions) = 2
    /\ RangeContains(regions[1].range, call.vaddr)
    /\ RangeContains(regions[2].range, call.vaddr)
    /\ regions[1] # regions[2]
    /\ ret.region = Some(regions[1])

\* C10: get_buf at an address of the region whose page is not populated, with a valid
\* file offset and a file that answers, returns a buffer of
\* min(align, range.end - page_addr) bytes and marks the page populated; on a
\* populated page it fails with the resource-busy error, which is not the
\* invalid-argument error, and leaves the populated set as it was.
C10_LoadOnce ==
    (call.op = "get_buf" /\ RangeContains(old_regions[call.index].range, call.vaddr)) =>
        LET R == old_regions[call.index]
            page_addr == call.vaddr - (call.vaddr % R.align)
            file_offset == R.offset + (page_addr - R.range.start)
        IN  /\ ( /\ page_addr \notin R.populated
                 /\ R.range.start <= page_addr /\ page_addr < R.range.end
                 /\ call.len_res.ok /\ call.read_res.ok
                 /\ 0 <= file_offset /\ file_offset < call.len_res.val )
               => /\ ret.kind = "Ok"
                  /\ ret.len = Min2(R.align, R.range.end - page_addr)
                  /\ Callee.populated = R.populated \cup {page_addr}
            /\ page_addr \in R.populated
               => /\ ret = BufErr(EBUSY)
                  /\ ret # BufErr(EINVAL)
                  /\ regions = old_regions

\* The region get_buf was called on, as it was before the call, the page of
\* the address and the file offset of that page.
Loaded == old_regions[call.index]
LoadedPage == call.vaddr - (call.vaddr % Loaded.align)
LoadedOffset == Loaded.offset + (LoadedPage - Loaded.range.start)
\* get_buf was called at an address of the region whose page lies in it.
LoadInRegion ==
    /\ call.op = "get_buf"
    /\ RangeContains(Loaded.range, call.vaddr)
    /\ Loaded.range.start <= LoadedPage

\* C11: get_buf on a page not yet populated whose file offset is negative, or
\* not below the length the file reports, fails with EINVAL, does not call
\* read_at and leaves the populated set as it was.
C11_InvalidOffsetRejected ==
    ( /\ LoadInRegion
      /\ LoadedPage \notin Loaded.populated
      /\ \/ LoadedOffset < 0
         \/ call.len_res.ok /\ LoadedOffset >= call.len_res.val )
    => /\ ret = BufErr(EINVAL)
       /\ ~call.read_called
       /\ regions = old_regions

C11_Witness ==
    /\ LoadInRegion
    /\ LoadedPage \notin Loaded.populated
    /\ call.len_res.ok
    /\ LoadedOffset = call.len_res.val
    /\ call.len_res.val > 0
    /\ ret = BufErr(EINVAL)

\* C12: when len() or read_at() fails inside get_buf, get_buf returns that
\* error, the page is not populated, and a get_buf on the same page that
\* follows is not answered with the already-populated error.
C12_FileErrorsPropagate ==
    call.op = "get_buf" =>
        /\ (call.len_called /\ ~call.len_res.ok) =>
              /\ ret = BufErr(call.len_res.err)
              /\ regions = old_regions
              /\ LoadedPage \notin Callee.populated
        /\ (call.read_called /\ ~call.read_res.ok) =>
              /\ ret = BufErr(call.read_res.err)
              /\ regions = old_regions
              /\ LoadedPage \notin Callee.populated
              /\ GetBuf(Callee, call.vaddr, overflow_checks, call.len_res, Ok(0)).ret
                   # BufErr(AlreadyPopulatedError)

C12_Witness ==
    /\ LoadInRegion
    /\ call.read_called
    /\ ~call.read_res.ok
    /\ ret = BufErr(EIO)
    /\ Loaded.populated # {}

\* C20: when read_at succeeds, however few bytes it read, get_buf succeeds
\* with a buffer of min(align, range.end - page_addr) bytes whose bytes past
\* those read are zero, and marks the page populated.
C20_ShortRead ==
    (LoadInRegion /\ call.read_called /\ call.read_res.ok) =>
        LET size == Min2(Loaded.align, Loaded.range.end - LoadedPage)
        IN  /\ ret.kind = "Ok"
            /\ Len(ret.buf) = size
            /\ \A k \in 1 .. size : k > call.read_res.val => ret.buf[k] = 0
            /\ Callee.populated = Loaded.populated \cup {LoadedPage}

C20_Witness ==
    /\ LoadInRegion
    /\ call.read_called
    /\ call.read_res.ok
    /\ call.read_res.val = 1
    /\ ret.kind = "Ok"
    /\ Len(ret.buf) > 1
    /\ ret.buf[1] = 1
    /\ ret.buf[Len(ret.buf)] = 0

\* Every populated address of the region lies in its range and is a multiple
\* of its page size.
WellPopulated(r) ==
    \A p \in r.populated : r.range.start <= p /\ p < r.range.end /\ p % r.align = 0

\* C13: every region held, returned as removed or produced by a split has
\* only populated addresses that lie in its range and are page-aligned.
C13_PopulatedInRange ==
    /\ \A r \in Elems(regions) : WellPopulated(r)
    /\ call.op = "remove_overlapped" => \A r \in Elems(ret.removed) : WellPopulated(r)
    /\ call.op = "split_at_range" => \A r \in Parts : WellPopulated(r)

\* remove_overlapped was called with the scenario's region alone in the
\* manager and the scenario's range, the region's third page.
ScenarioCall ==
    /\ call.op = "remove_overlapped"
    /\ Len(old_regions) = 1
    /\ old_regions[1].range = [start |-> PageUnit, end |-> 4 * PageUnit]
    /\ old_regions[1].offset = 0
    /\ old_regions[1].align = PageUnit
    /\ call.range = [start |-> 2 * PageUnit, end |-> 3 * PageUnit]

\* C14: in the scenario remove_overlapped returns exactly the middle page with
\* offset one page, and the manager holds exactly the first page with offset
\* 0 and the last page with offset two pages, which are disjoint.
C14_Scenario ==
    ScenarioCall =>
        /\ Len(ret.removed) = 1
        /\ ret.removed[1].range = [start |-> 2 * PageUnit, end |-> 3 * PageUnit]
        /\ ret.removed[1].offset = PageUnit
        /\ Len(regions) = 2
        /\ regions[1].range = [start |-> PageUnit, end |-> 2 * PageUnit]
        /\ regions[1].offset = 0
        /\ regions[2].range = [start |-> 3 * PageUnit, end |-> 4 * PageUnit]
        /\ regions[2].offset = 2 * PageUnit
        /\ regions[1].range.end <= regions[2].range.start

C14_Witness ==
    /\ ScenarioCall
    /\ Len(regions) = 2
    /\ Len(ret.removed) = 1
    /\ ret.removed[1].populated = {2 * PageUnit}

\* The address map of a list of regions at address a: the file byte a maps
\* to and whether a's page is populated, for each region holding a.
MapAt(rs, a) ==
    {<<r.offset + (a - r.range.start), (a - (a % r.align)) \in r.populated>> :
        r \in {x \in Elems(rs) : x.range.start <= a /\ a < x.range.end}}

PairwiseDisjoint(rs) ==
    \A i \in 1 .. Len(rs), j \in 1 .. Len(rs) :
        i # j => ~SharesAddress(rs[i].range, rs[j].range)

\* C16: on a disjoint manager remove_overlapped(r) restricts the address map:
\* the held regions give the old map outside r, the removed regions give the
\* old map inside r.
C16_MapRestricted ==
    (call.op = "remove_overlapped" /\ PairwiseDisjoint(old_regions)) =>
        \A a \in Addrs :
            /\ MapAt(regions, a) =
                  (IF RangeContains(call.range, a) THEN {} ELSE MapAt(old_regions, a))
            /\ MapAt(ret.removed, a) =
                  (IF RangeContains(call.range, a) THEN MapAt(old_regions, a) ELSE {})

\* C19: remove_overlapped(r) called again right after remove_overlapped(r)
\* returns nothing and leaves the region list as it is.
C19_Idempotent ==
    call.op = "remove_overlapped" =>
        LET again == RemoveOverlapped(regions, call.range)
        IN  /\ again.removed = <<>>
            /\ again.retained = regions

C19_Witness ==
    /\ call.op = "remove_overlapped"
    /\ Len(ret.removed) = 2
    /\ Len(regions) = 2
    /\ regions # old_regions
    /\ \E i \in 1 .. Len(regions) : regions[i].populated # {}

\* The call's page has a valid file offset and its read, if made, succeeded.
Loadable(t) ==
    /\ GetBufOffset([regions[1] EXCEPT !.populated = {}], threads[t].page_addr,
                    overflow_checks, Ok(MaxFileLen), Ok(PageUnit)).ret.kind = "Ok"
    /\ "read_res" \in DOMAIN threads[t] => threads[t].read_res.ok

\* C15: when concurrent get_buf calls on distinct pages of one region, each
\* with a valid file offset and a successful read, have all returned, every
\* one of them succeeded and every one of their pages is in the populated set.
C15_NoLostInsert ==
    (/\ threads # <<>>
     /\ \A t \in Loaders : Returned(t) /\ Loadable(t)
     /\ \A t \in Loaders, u \in Loaders :
           t # u => threads[t].page_addr # threads[u].page_addr) =>
        \A t \in Loaders :
            /\ threads[t].ret.kind = "Ok"
            /\ threads[t].page_addr \in regions[1].populated

C15_Witness ==
    /\ threads # <<>>
    /\ \A t \in Loaders : Returned(t) /\ Loadable(t) /\ threads[t].ret.kind = "Ok"
    /\ \A t \in Loaders, u \in Loaders :
          t # u => threads[t].page_addr # threads[u].page_addr
    /\ \E t \in Loaders : threads[t].raced
    /\ regions[1].populated = {threads[t].page_addr : t \in Loaders}

\* The segments the concurrent split_at_range returned.
ConcParts ==
    {Unwrap(threads[Splitter].parts[k]) :
        k \in {n \in 1 .. 3 : IsSome(threads[Splitter].parts[n])}}

\* C17: the segments split_at_range returns while get_buf calls run on the
\* same region all take their populated sets from the one value S the
\* parent's set had at the snapshot: each is S restricted to the segment's
\* interval, no page is in two segments, and a page inserted after the
\* snapshot is in the parent only.
C17_SingleSnapshot ==
    (threads # <<>> /\ Returned(Splitter)) =>
        LET S == threads[Splitter].populated_pages
        IN  /\ S \subseteq regions[1].populated
            /\ \A part \in ConcParts :
                  part.populated = {page \in S : RangeContains(part.range, page)}
            /\ \A part \in ConcParts, other \in ConcParts :
                  part # other => part.populated \cap other.populated = {}
            /\ \A page \in regions[1].populated \ S :
                  \A part \in ConcParts : page \notin part.populated

C17_Witness ==
    /\ threads # <<>>
    /\ Returned(Splitter)
    /\ threads[Splitter].populated_pages # {}
    /\ "behind" \in DOMAIN threads[Splitter]
    /\ \E page \in threads[Splitter].behind :
          \E part \in ConcParts : RangeContains(part.range, page)
    /\ \E part \in ConcParts : part.populated # {}

\* C18: of the concurrent get_buf calls on one page of one region, each with a
\* valid file offset and a successful read, one at most returns a buffer and
\* every other one returns the already-populated error.
C18_LoadedOnce ==
    threads # <<>> =>
        \A t \in Loaders, u \in Loaders :
            (/\ t # u
             /\ Returned(t) /\ Returned(u)
             /\ Loadable(t) /\ Loadable(u)
             /\ threads[t].page_addr = threads[u].page_addr
             /\ threads[t].ret.kind = "Ok") =>
                threads[u].ret = BufErr(AlreadyPopulatedError)

====
